---- MODULE Spec2Model ----
(***************************************************************************)
(* Shadow-Reddit: one RedditSession driven by the /start orchestrator      *)
(* goroutine (stance selection, sequential top-level comments, one reply   *)
(* goroutine per comment, join goroutine) and observed by /ws handlers     *)
(* that poll the session and push delta events over a websocket.           *)
(*                                                                         *)
(* Go indices are kept 0-based in the variables; a TLA+ sequence element   *)
(* of Go index i is s[i + 1].                                              *)
(***************************************************************************)
EXTENDS Integers, Sequences, FiniteSets, TLC

(* ---------- bounds ---------- *)

\* largest number of stances the stance-selection call returns in the model
MaxStances == 3

\* largest number of /start requests handled in the model
MaxRequests == 3

(* ---------- input domains ---------- *)

\* entries of the stance catalog (stances.go) the selection draws from
AllStances ==
    << [Type |-> "supportive", SubType |-> "strong_agreement",
        Summary |-> "Full support, clear siding with OP."],
       [Type |-> "opposing", SubType |-> "moral_critique",
        Summary |-> "Argues from ethical grounds against OP."] >>

\* the selections generateStances returns in the model: every length up to
\* MaxStances, cycling through the catalog (repeats are allowed)
StanceSelections ==
    { [j \in 1..n |-> AllStances[((j - 1) % Len(AllStances)) + 1]] :
        n \in 0..MaxStances }

\* the number of stances the selection prompt asks for
SelectMin == 5
SelectMax == 8

\* names randomReplyUsername picks from
names == <<"ReplyMaster">>

\* texts the collaborator returns for a top-level comment / for a reply
TopTexts(stance) == {"comment as " \o stance.SubType}
ReplyTexts(parentComment) == {"reply to " \o parentComment}

\* errors generateStances returns (marshalling the catalog, API failure,
\* missing function call, arguments that do not unmarshal)
StanceErrors == {"failed to marshal AllStances",
                 "failed to get response from OpenAI",
                 "no function call in OpenAI response",
                 "failed to unmarshal function response"}
\* errors GenerateResponseFromStance / GenerateReplyToComment return
GenErrors == {"no response from OpenAI"}

\* the /ws connections observing the session
Observers == {"o1", "o2"}

NoError == "nil"

\* identifiers randomID returns in the model
IDs == {"aaaaaaaaaaaa", "aaaaaaaaaaab"}

\* form values of a /start request
Prompts == {"", "p1", "p2"}
Subreddits == {"aita"}
Methods == {"POST", "GET"}

(* ---------- state ---------- *)

VARIABLES
    SelectedStances,   \* sess.SelectedStances
    Responses,         \* sess.Responses
    Done,              \* sess.Done
    Error,             \* sess.Error
    pc,                \* position of the orchestrator goroutine
    selectedStances,   \* its local selectedStances
    k,                 \* position of its range loop over selectedStances
    wg,                \* the sync.WaitGroup counter
    reply,             \* the reply goroutines, by Go index of their comment
    joinpc,            \* position of the join goroutine
    doneWrites,        \* number of assignments to sess.Done so far
    topCalls,          \* number of GenerateResponseFromStance calls so far
    iter,              \* the locals idx and text of the loop iteration, from
                       \* its unlock to its go statement
    mutex,             \* sessionsMutex between critical sections: "free", or
                       \* the /ws handler that holds it and will not release
    wspc,              \* position of each /ws handler
    lastSentTopLevel,  \* its local lastSentTopLevel
    replyCounts,       \* its local replyCounts
    sent,              \* the messages it has written to its connection
    conn,              \* its connection: "open", "broken" (peer gone) or
                       \* "write_error" (a WriteJSON has returned an error)
    unlocked,          \* session fields accessed without sessionsMutex held
    build,             \* the program running: "part_000" or "main.go"
    sessions,          \* the sessions map: id -> session (position in created)
    created,           \* the sessions NewSession has built, in order
    launched,          \* sessions an orchestrator goroutine was started for
    inflight,          \* requests past NewSession or GetSession, not yet answered
    statuses           \* the HTTP requests answered and their status, in order

sessVars == <<SelectedStances, Responses, Done, Error>>
orchVars == <<pc, selectedStances, k, wg, reply, joinpc, doneWrites, topCalls,
              iter>>
wsVars == <<wspc, lastSentTopLevel, replyCounts, sent, conn>>
storeVars == <<build, sessions, created, launched, inflight, statuses>>
vars == <<SelectedStances, Responses, Done, Error, pc, selectedStances, k,
          wg, reply, joinpc, doneWrites, topCalls, iter, mutex, wspc,
          lastSentTopLevel, replyCounts, sent, conn, unlocked, build,
          sessions, created, launched, inflight, statuses>>

(* ---------- pure helpers ---------- *)

Digits == <<"0", "1", "2", "3", "4", "5", "6", "7", "8", "9">>

\* fmt.Sprintf("%d", n) for n >= 0
RECURSIVE SprintfD(_)
SprintfD(n) ==
    IF n < 10 THEN Digits[n + 1]
    ELSE SprintfD(n \div 10) \o Digits[(n % 10) + 1]

\* fmt.Sprintf("%s_%s", a, b)
SprintfUser(a, b) == a \o "_" \o b

\* the top-level SimulatedComment built from a stance and the generated text
TopComment(stance, text) ==
    [Username |-> SprintfUser(stance.Type, stance.SubType),
     Flair |-> stance.Type,
     Text |-> text,
     Replies |-> <<>>]

\* the child SimulatedComment built from a generated reply
ChildComment(username, replyText) ==
    [Username |-> username,
     Flair |-> "reply",
     Text |-> replyText,
     Replies |-> <<>>]

\* the node of one comment without its children
MainComment(c, indentLevel) ==
    [class |-> "ml-" \o SprintfD(indentLevel * 6),
     Username |-> c.Username,
     Flair |-> c.Flair,
     Text |-> c.Text]

\* RenderCommentRecursive: the comment alone when it has no replies,
\* otherwise a Div holding the comment followed by its rendered replies
RECURSIVE RenderCommentRecursive(_, _)
RenderCommentRecursive(c, indentLevel) ==
    IF Len(c.Replies) = 0
    THEN MainComment(c, indentLevel)
    ELSE [div |-> <<MainComment(c, indentLevel)>> \o
                  [j \in 1..Len(c.Replies) |->
                      RenderCommentRecursive(c.Replies[j], indentLevel + 1)]]

(* ---------- initial state: session created, goroutine launched ---------- *)

NoReply == [pc |-> "none", parentIndex |-> 0, parentText |-> ""]

\* idx and text outside the window in which the loop holds them
NoIter == [idx |-> 0, text |-> ""]

\* the session the single-session specifications follow
TheSession == [ID |-> "aaaaaaaaaaaa", Prompt |-> "p1", Subreddit |-> "aita"]

\* the session and its goroutines right after /start; clients maps each
\* connection to "idle" (will request /ws) or "absent" (never connects)
InitWith(clients) ==
    /\ build = "part_000"
    /\ created = <<TheSession>>
    /\ sessions = [id \in {TheSession.ID} |-> 1]
    /\ launched = {1}
    /\ inflight = {}
    /\ statuses = <<[path |-> "/start", method |-> "POST",
                     prompt |-> TheSession.Prompt, status |-> 303]>>
    /\ conn = [o \in Observers |-> "open"]
    /\ unlocked = {}
    /\ mutex = "free"
    /\ SelectedStances = <<>>
    /\ Responses = <<>>
    /\ Done = FALSE
    /\ Error = NoError
    /\ pc = "stances"
    /\ selectedStances = <<>>
    /\ k = 0
    /\ wg = 0
    /\ reply = [i \in 0..(MaxStances - 1) |-> NoReply]
    /\ joinpc = "none"
    /\ doneWrites = 0
    /\ topCalls = 0
    /\ iter = NoIter
    /\ wspc = clients
    /\ lastSentTopLevel = [o \in Observers |-> 0]
    /\ replyCounts = [o \in Observers |-> <<>>]
    /\ sent = [o \in Observers |-> <<>>]

\* the programs of the repository: part_000 and the older main.go are each
\* a package main with its own routes and its own sessions map
Builds == {"part_000", "main.go"}

\* a server of either program before any request: no session, no
\* goroutine, no connection
InitStore ==
    /\ build \in Builds
    /\ created = <<>>
    /\ sessions = [id \in {} |-> 0]
    /\ launched = {}
    /\ inflight = {}
    /\ statuses = <<>>
    /\ conn = [o \in Observers |-> "open"]
    /\ unlocked = {}
    /\ mutex = "free"
    /\ SelectedStances = <<>>
    /\ Responses = <<>>
    /\ Done = FALSE
    /\ Error = NoError
    /\ pc = "none"
    /\ selectedStances = <<>>
    /\ k = 0
    /\ wg = 0
    /\ reply = [i \in 0..(MaxStances - 1) |-> NoReply]
    /\ joinpc = "none"
    /\ doneWrites = 0
    /\ topCalls = 0
    /\ iter = NoIter
    /\ wspc = [o \in Observers |-> "absent"]
    /\ lastSentTopLevel = [o \in Observers |-> 0]
    /\ replyCounts = [o \in Observers |-> <<>>]
    /\ sent = [o \in Observers |-> <<>>]

\* one client connects to the session
Init == InitWith([o \in Observers |-> IF o = "o1" THEN "idle" ELSE "absent"])

\* two clients connect to the session, each at a time of its own
InitTwo == InitWith([o \in Observers |-> "idle"])

(* ---------- /start: the orchestrator goroutine ---------- *)

\* variant: the failure path forgets to set Done
OnStanceErrorNotDone(err) == [Error |-> err, Done |-> FALSE, pc |-> "returned"]

\* variant: the failure path forgets to return and goes on to store stances
OnStanceErrorNoReturn(err) == [Error |-> err, Done |-> TRUE, pc |-> "store"]

\* generateStances failed: Error recorded, Done set, the goroutine returns
OnStanceError(err) == [Error |-> err, Done |-> TRUE, pc |-> "returned"]

\* variant: continue instead of break
OnTopLevelErrorContinue(kk) == [pc |-> "loop", k |-> kk + 1]

\* the loop leaves on a failed top-level generation (break)
OnTopLevelError(kk) == [pc |-> "after_loop", k |-> kk]

\* variant: the new comment is put in front
AppendResponseFront(resp, comment) == <<comment>> \o resp

\* sess.Responses = append(sess.Responses, comment)
AppendResponse(resp, comment) == Append(resp, comment)

\* variant: the child goes to the newest comment, not to parentIndex
ReplyTargetLast(parentIndex, resp) == Len(resp) - 1

\* Go index of the comment a reply goroutine appends its child to
ReplyTarget(parentIndex, resp) == parentIndex

\* variant: the child is appended twice
AppendReplyTwice(resp, idx, child) ==
    [resp EXCEPT ![idx + 1].Replies = Append(Append(@, child), child)]

\* sess.Responses[idx].Replies = append(sess.Responses[idx].Replies, child)
AppendReply(resp, idx, child) ==
    [resp EXCEPT ![idx + 1].Replies = Append(@, child)]

\* the process is running: a panic in a goroutine that nothing recovers
\* ends the program with all its goroutines and handlers
Running == pc # "panicked"

\* generateStances returned a selection
GenerateStancesOk ==
    /\ pc = "stances"
    /\ \E s \in StanceSelections : selectedStances' = s
    /\ pc' = "store"
    /\ UNCHANGED <<sessVars, k, wg, reply, joinpc, doneWrites, topCalls, iter,
                   wsVars, storeVars, unlocked, mutex>>

\* generateStances failed: record the error, mark done, return
GenerateStancesFail ==
    /\ pc = "stances"
    /\ \E err \in StanceErrors :
         /\ Error' = OnStanceError(err).Error
         /\ Done' = OnStanceError(err).Done
         /\ pc' = OnStanceError(err).pc
    /\ doneWrites' = doneWrites + 1
    /\ unlocked' = unlocked \cup {"Error", "Done"}
    /\ UNCHANGED <<SelectedStances, Responses, selectedStances, k, wg, reply,
                   joinpc, topCalls, iter, wsVars, storeVars, mutex>>

\* the API answered without error and without any choice: generateStances
\* indexes chatResp.Choices[0], the goroutine panics and the program ends
GenerateStancesPanic ==
    /\ pc = "stances"
    /\ pc' = "panicked"
    /\ UNCHANGED <<sessVars, selectedStances, k, wg, reply, joinpc,
                   doneWrites, topCalls, iter, wsVars, storeVars, unlocked,
                   mutex>>

\* variant: the selection is not copied into the session
StoredStancesNone(sel) == <<>>

\* sess.SelectedStances = selectedStances
StoredStances(sel) == sel

\* store the stances in the session, under the mutex
StoreStances ==
    /\ pc = "store"
    /\ mutex = "free"
    /\ SelectedStances' = StoredStances(selectedStances)
    /\ pc' = "loop"
    /\ UNCHANGED <<Responses, Done, Error, selectedStances, k, wg, reply,
                   joinpc, doneWrites, topCalls, iter, wsVars, storeVars,
                   unlocked, mutex>>

\* variant: every iteration takes the first stance
RangeStanceFirst(sel, kk) == sel[1]

\* the stance of iteration kk of: for _, stance := range selectedStances
RangeStance(sel, kk) == sel[kk + 1]

\* variant: the loop stays at the same position
RangeNextSame(kk) == kk

\* the position after an iteration of the range loop that was not left
RangeNext(kk) == kk + 1

\* variant: an empty selection never ends the loop
RangeEndsNonEmpty(sel, kk) == kk >= Len(sel) /\ Len(sel) > 0

\* the range loop ends after the last element
RangeEnds(sel, kk) == kk >= Len(sel)

\* variant: the failure is not recorded
TopLevelErrorDropped(err) == NoError

\* sess.Error = err on a failed top-level generation
TopLevelErrorRecorded(err) == err

\* variant: the goroutine returns without wg.Done()
WgDoneSkipped(counter) == counter

\* defer wg.Done()
WgDone(counter) == counter - 1

\* one loop iteration whose generation succeeds, up to the unlock: build
\* the comment, lock, take idx, append, unlock
TopLevelOk ==
    /\ pc = "loop"
    /\ k < Len(selectedStances)
    /\ mutex = "free"
    /\ \E text \in TopTexts(RangeStance(selectedStances, k)) :
         LET stance == RangeStance(selectedStances, k)
             comment == TopComment(stance, text)
         IN /\ iter' = [idx |-> Len(Responses), text |-> text]
            /\ Responses' = AppendResponse(Responses, comment)
    /\ topCalls' = topCalls + 1
    /\ pc' = "spawn"
    /\ UNCHANGED <<SelectedStances, Done, Error, selectedStances, k, wg, reply,
                   joinpc, doneWrites, wsVars, storeVars, unlocked, mutex>>

\* the rest of that iteration: wg.Add(1), start the reply goroutine with
\* idx and text, go to the next stance
TopLevelSpawn ==
    /\ pc = "spawn"
    /\ wg' = wg + 1
    /\ reply' = [reply EXCEPT ![iter.idx] =
                    [pc |-> "call", parentIndex |-> iter.idx,
                     parentText |-> iter.text]]
    /\ k' = RangeNext(k)
    /\ iter' = NoIter
    /\ pc' = "loop"
    /\ UNCHANGED <<sessVars, selectedStances, joinpc, doneWrites, topCalls,
                   wsVars, storeVars, unlocked, mutex>>

\* one loop iteration whose generation fails: record the error, break
TopLevelFail ==
    /\ pc = "loop"
    /\ k < Len(selectedStances)
    /\ \E err \in GenErrors : Error' = TopLevelErrorRecorded(err)
    /\ pc' = OnTopLevelError(k).pc
    /\ k' = OnTopLevelError(k).k
    /\ topCalls' = topCalls + 1
    /\ unlocked' = unlocked \cup {"Error"}
    /\ UNCHANGED <<SelectedStances, Responses, Done, selectedStances, wg,
                   reply, joinpc, doneWrites, iter, wsVars, storeVars, mutex>>

\* after the loop: start the join goroutine and return
SpawnJoin ==
    /\ \/ pc = "after_loop"
       \/ pc = "loop" /\ RangeEnds(selectedStances, k)
    /\ joinpc' = "wait"
    /\ pc' = "returned"
    /\ UNCHANGED <<sessVars, selectedStances, k, wg, reply, doneWrites,
                   topCalls, iter, wsVars, storeVars, unlocked, mutex>>

\* reply goroutine of comment i: generation succeeded; lock, append the
\* child, unlock
ReplyOk(i) ==
    /\ reply[i].pc = "call"
    /\ mutex = "free"
    /\ \E replyText \in ReplyTexts(reply[i].parentText), n \in 1..Len(names) :
         Responses' = AppendReply(Responses,
                                  ReplyTarget(reply[i].parentIndex, Responses),
                                  ChildComment(names[n], replyText))
    /\ reply' = [reply EXCEPT ![i].pc = "appended"]
    /\ UNCHANGED <<SelectedStances, Done, Error, pc, selectedStances, k, wg,
                   joinpc, doneWrites, topCalls, iter, wsVars, storeVars,
                   unlocked, mutex>>

\* reply goroutine of comment i returns after its append: deferred wg.Done()
ReplyReturn(i) ==
    /\ reply[i].pc = "appended"
    /\ reply' = [reply EXCEPT ![i].pc = "finished"]
    /\ wg' = WgDone(wg)
    /\ UNCHANGED <<sessVars, pc, selectedStances, k, joinpc, doneWrites,
                   topCalls, iter, wsVars, storeVars, unlocked, mutex>>

\* variant: the reply goroutine records its error on the session
OnReplyErrorRecorded(err, current) == err

\* sess.Error after a failed reply generation: the error is only logged
OnReplyError(err, current) == current

\* reply goroutine of comment i: generation failed, log and return
\* (deferred wg.Done())
ReplyFail(i) ==
    /\ reply[i].pc = "call"
    /\ \E err \in GenErrors : Error' = OnReplyError(err, Error)
    /\ reply' = [reply EXCEPT ![i].pc = "failed"]
    /\ wg' = WgDone(wg)
    /\ UNCHANGED <<SelectedStances, Responses, Done, pc, selectedStances, k,
                   joinpc, doneWrites, topCalls, iter, wsVars, storeVars,
                   unlocked, mutex>>

\* variant: Wait returns whatever the counter is
WaitReturnsEarly(counter) == TRUE

\* wg.Wait() returns when the wait group counter is zero
WaitReturns(counter) == counter = 0

\* join goroutine: wg.Wait() returned, mark the session done
Join ==
    /\ joinpc = "wait"
    /\ WaitReturns(wg)
    /\ Done' = TRUE
    /\ doneWrites' = doneWrites + 1
    /\ joinpc' = "finished"
    /\ unlocked' = unlocked \cup {"Done"}
    /\ UNCHANGED <<SelectedStances, Responses, Error, pc, selectedStances, k,
                   wg, reply, topCalls, iter, wsVars, storeVars, mutex>>

(* ---------- /ws: the delta streamer ---------- *)

\* make([]int, n)
MakeInts(n) == [j \in 1..n |-> 0]

\* variant: the handler starts after the comments that already exist
WsSetupSkip(resp) ==
    [lastSentTopLevel |-> Len(resp), replyCounts |-> MakeInts(Len(resp))]

\* lastSentTopLevel and replyCounts before the loop
WsSetup(resp) == [lastSentTopLevel |-> 0, replyCounts |-> MakeInts(Len(resp))]

\* variant: the handler never sees the flag set
DoneReadsNever(d) == {FALSE}

\* values the unsynchronised read of sess.Done may return: the writes to
\* Done are made without the mutex, so a read may still see the old value
DoneReads(d) == IF d THEN {TRUE, FALSE} ELSE {FALSE}

\* variant: the new entry is always 0
CountAtEmissionZero(comment) == 0

\* the value appended to replyCounts when a comment is sent
CountAtEmission(comment) == Len(comment.Replies)

\* variant: nothing is appended
GrowCountsNot(counts, n) == counts

\* replyCounts = append(replyCounts, n)
GrowCounts(counts, n) == Append(counts, n)

CommentMessage(index, comment) ==
    [type |-> "comment",
     parentIndex |-> SprintfD(index),
     html |-> RenderCommentRecursive(comment, 0)]

\* variant: the reply message names the next index
ReplyMessageNext(i, singleReply) ==
    [type |-> "reply",
     parentIndex |-> SprintfD(i + 1),
     html |-> RenderCommentRecursive(singleReply, 1)]

ReplyMessage(i, singleReply) ==
    [type |-> "reply",
     parentIndex |-> SprintfD(i),
     html |-> RenderCommentRecursive(singleReply, 1)]

DoneMessage == [type |-> "done"]

\* loop 1: for lastSentTopLevel < len(sess.Responses)
RECURSIVE DrainTopLevel(_, _, _, _)
DrainTopLevel(resp, last, counts, out) ==
    IF last < Len(resp)
    THEN LET comment == resp[last + 1]
         IN DrainTopLevel(resp, last + 1,
                          GrowCounts(counts, CountAtEmission(comment)),
                          Append(out, CommentMessage(last, comment)))
    ELSE [lastSentTopLevel |-> last, replyCounts |-> counts, out |-> out,
          panic |-> FALSE]

\* loop 2: for i, comment := range sess.Responses
RECURSIVE DrainReplies(_, _, _, _)
DrainReplies(resp, i, counts, out) ==
    IF i >= Len(resp)
    THEN [replyCounts |-> counts, out |-> out, panic |-> FALSE]
    ELSE IF i >= Len(counts)
    THEN [replyCounts |-> counts, out |-> out, panic |-> TRUE]
    ELSE LET comment == resp[i + 1]
             newReplyCount == Len(comment.Replies)
             old == counts[i + 1]
         IN IF newReplyCount > old
            THEN DrainReplies(resp, i + 1,
                     [counts EXCEPT ![i + 1] = newReplyCount],
                     out \o [r \in 1..(newReplyCount - old) |->
                                ReplyMessage(i, comment.Replies[old + r])])
            ELSE DrainReplies(resp, i + 1, counts, out)

\* one pass of the two loops of the handler's loop body, under the mutex:
\* the locals afterwards and the messages handed to conn.WriteJSON, in order
WsIteration(resp, last, counts) ==
    LET top == DrainTopLevel(resp, last, counts, <<>>)
        rep == DrainReplies(resp, 0, top.replyCounts, top.out)
    IN [lastSentTopLevel |-> top.lastSentTopLevel,
        replyCounts |-> rep.replyCounts,
        out |-> rep.out,
        panic |-> rep.panic]

\* variant: the handler does not return after done
AfterIterationLoop(done) == "loop"

\* where the handler goes from: if done { WriteJSON(done); return }; Sleep
AfterIteration(done) == IF done THEN "closed" ELSE "loop"

\* the handler found the session, upgraded the connection and set up
\* (replyCounts is made under the mutex)
WsConnect(o) ==
    /\ Running
    /\ wspc[o] = "idle"
    /\ mutex = "free"
    /\ lastSentTopLevel' =
           [lastSentTopLevel EXCEPT ![o] = WsSetup(Responses).lastSentTopLevel]
    /\ replyCounts' = [replyCounts EXCEPT ![o] = WsSetup(Responses).replyCounts]
    /\ wspc' = [wspc EXCEPT ![o] = "loop"]
    /\ UNCHANGED <<sessVars, orchVars, sent, conn, storeVars, unlocked, mutex>>

\* conn.WriteJSON called for each of msgs in turn on a connection in state
\* c whose peer takes the first n of them and is gone for the others: what
\* reaches the client, and the state of the connection afterwards (a write
\* to a peer that is gone returns an error and delivers nothing)
WriteJSON(c, msgs, n) ==
    [delivered |-> IF c = "open" THEN SubSeq(msgs, 1, n) ELSE <<>>,
     conn |-> IF Len(msgs) > 0 /\ (c # "open" \/ n < Len(msgs))
              THEN "write_error" ELSE c]

\* the numbers of messages the peer of a connection may take out of total:
\* all of them when it stays, any smaller number when it leaves meanwhile
Taken(leaves, total) == IF leaves THEN 0..(total - 1) ELSE {total}

\* the locked part of one iteration of the handler's loop: read Done, run
\* the two loops and write their messages, unlock; then sleep and go round
\* again, or go on to the done message. The value WriteJSON returns is not
\* looked at. An index out of range in loop 2 panics with the mutex held:
\* net/http recovers the panic of a handler, nothing unlocks the mutex.
WsIterate(o, leaves) ==
    /\ Running
    /\ wspc[o] = "loop"
    /\ mutex = "free"
    /\ \E done \in DoneReads(Done) :
         LET it == WsIteration(Responses, lastSentTopLevel[o], replyCounts[o])
         IN \E n \in Taken(leaves, Len(it.out)) :
              LET w == WriteJSON(conn[o], it.out, n)
              IN /\ lastSentTopLevel' =
                        [lastSentTopLevel EXCEPT ![o] = it.lastSentTopLevel]
                 /\ replyCounts' = [replyCounts EXCEPT ![o] = it.replyCounts]
                 /\ sent' = [sent EXCEPT ![o] = @ \o w.delivered]
                 /\ conn' = [conn EXCEPT ![o] = w.conn]
                 /\ wspc' = [wspc EXCEPT ![o] =
                                IF it.panic THEN "panicked"
                                ELSE IF done THEN "unlocked"
                                ELSE AfterIteration(FALSE)]
                 /\ mutex' = IF it.panic THEN o ELSE mutex
    /\ UNCHANGED <<sessVars, orchVars, storeVars, unlocked>>

\* an iteration whose writes all go through to a peer that stays
WsPoll(o) == WsIterate(o, FALSE)

\* an iteration during which the peer goes away: the messages after that
\* are not delivered
WsPollPeerLeaves(o) ==
    /\ conn[o] = "open"
    /\ WsIterate(o, TRUE)

\* after the unlock of an iteration that read done: write the done message
\* and return
WsFinish(o) ==
    /\ Running
    /\ wspc[o] = "unlocked"
    /\ LET w == WriteJSON(conn[o], <<DoneMessage>>, 1)
       IN /\ sent' = [sent EXCEPT ![o] = @ \o w.delivered]
          /\ conn' = [conn EXCEPT ![o] = w.conn]
    /\ wspc' = [wspc EXCEPT ![o] = AfterIteration(TRUE)]
    /\ UNCHANGED <<sessVars, orchVars, lastSentTopLevel, replyCounts,
                   storeVars, unlocked, mutex>>

\* the client of o goes away between two writes of the handler
WsBreak(o) ==
    /\ Running
    /\ wspc[o] \in {"loop", "unlocked"}
    /\ conn[o] = "open"
    /\ conn' = [conn EXCEPT ![o] = "broken"]
    /\ UNCHANGED <<sessVars, orchVars, wspc, lastSentTopLevel, replyCounts,
                   sent, storeVars, unlocked, mutex>>

\* loop 1 as far as n writes that returned: the locals when the handler is
\* inside the next write, or at the end of the loop with writes left over
RECURSIVE StalledTopLevel(_, _, _, _)
StalledTopLevel(resp, last, counts, n) ==
    IF last < Len(resp) /\ n > 0
    THEN StalledTopLevel(resp, last + 1,
                         GrowCounts(counts, CountAtEmission(resp[last + 1])),
                         n - 1)
    ELSE [lastSentTopLevel |-> last, replyCounts |-> counts, left |-> n,
          inside |-> last < Len(resp)]

\* loop 2 as far as n writes that returned: replyCounts[i] is assigned after
\* all the writes for comment i, so not for the comment whose write blocks
RECURSIVE StalledReplies(_, _, _, _)
StalledReplies(resp, i, counts, n) ==
    IF i >= Len(resp) \/ i >= Len(counts)
    THEN counts
    ELSE LET newReplyCount == Len(resp[i + 1].Replies)
             old == counts[i + 1]
         IN IF newReplyCount > old
            THEN IF newReplyCount - old > n
                 THEN counts
                 ELSE StalledReplies(resp, i + 1,
                          [counts EXCEPT ![i + 1] = newReplyCount],
                          n - (newReplyCount - old))
            ELSE StalledReplies(resp, i + 1, counts, n)

\* the locals of a handler stopped inside its write number n + 1 of an
\* iteration
WsStalled(resp, last, counts, n) ==
    LET top == StalledTopLevel(resp, last, counts, n)
    IN [lastSentTopLevel |-> top.lastSentTopLevel,
        replyCounts |-> IF top.inside THEN top.replyCounts
                        ELSE StalledReplies(resp, 0, top.replyCounts, top.left)]

\* the client of o stops reading: once the buffers are full a WriteJSON of
\* the iteration (made with the mutex held, without a write deadline) never
\* returns, after the n messages written before it
WsStall(o) ==
    /\ Running
    /\ wspc[o] = "loop"
    /\ mutex = "free"
    /\ conn[o] = "open"
    /\ LET it == WsIteration(Responses, lastSentTopLevel[o], replyCounts[o])
       IN /\ Len(it.out) > 0
          /\ \E n \in 0..(Len(it.out) - 1) :
               LET at == WsStalled(Responses, lastSentTopLevel[o],
                                   replyCounts[o], n)
               IN /\ sent' = [sent EXCEPT ![o] = @ \o SubSeq(it.out, 1, n)]
                  /\ lastSentTopLevel' =
                         [lastSentTopLevel EXCEPT ![o] = at.lastSentTopLevel]
                  /\ replyCounts' = [replyCounts EXCEPT ![o] = at.replyCounts]
    /\ wspc' = [wspc EXCEPT ![o] = "blocked"]
    /\ mutex' = o
    /\ UNCHANGED <<sessVars, orchVars, conn, storeVars, unlocked>>

(* ---------- the session store and the request handlers in front of it ---------- *)

\* variant: the prompt is not validated
PromptAcceptedAlways(prompt) == TRUE

\* the handlers go on when prompt != ""
PromptAccepted(prompt) == prompt # ""

\* NewSession with id the value randomID returned: build the session and
\* put it in the map under id
NewSession(store, made, id, prompt, subreddit) ==
    LET s == [ID |-> id, Prompt |-> prompt, Subreddit |-> subreddit]
        ptr == Len(made) + 1
    IN [created |-> Append(made, s),
        sessions |-> [x \in DOMAIN store \cup {id} |->
                         IF x = id THEN ptr ELSE store[x]],
        session |-> ptr]

\* GetSession: s, ok := sessions[id]
GetSession(store, id) ==
    IF id \in DOMAIN store THEN [ok |-> TRUE, session |-> store[id]]
    ELSE [ok |-> FALSE, session |-> 0]

\* the log of answers after one more answer
Logged(path, method, prompt, status) ==
    Append(statuses, [path |-> path, method |-> method, prompt |-> prompt,
                      status |-> status])

\* requests received so far: answered, or in a handler past its call of
\* NewSession or GetSession
Received == Len(statuses) + Cardinality(inflight)

\* a start handler up to the return of NewSession: answer 405 or 400 and
\* return, or create the session and go on
StartUpToNewSession(path) ==
    /\ Received < MaxRequests
    /\ \E method \in Methods, parseOk \in BOOLEAN, prompt \in Prompts,
          subreddit \in Subreddits, id \in IDs :
         IF method # "POST"
         THEN /\ statuses' = Logged(path, method, prompt, 405)
              /\ UNCHANGED <<sessions, created, inflight>>
         ELSE IF ~parseOk
         THEN /\ statuses' = Logged(path, method, prompt, 400)
              /\ UNCHANGED <<sessions, created, inflight>>
         ELSE IF ~PromptAccepted(prompt)
         THEN /\ statuses' = Logged(path, method, prompt, 400)
              /\ UNCHANGED <<sessions, created, inflight>>
         ELSE LET new == NewSession(sessions, created, id, prompt, subreddit)
              IN /\ mutex = "free"
                 /\ created' = new.created
                 /\ sessions' = new.sessions
                 /\ inflight' = inflight \cup
                        {[req |-> Received + 1, path |-> path,
                          method |-> method, prompt |-> prompt,
                          session |-> new.session, stage |-> "created"]}
                 /\ UNCHANGED statuses
    /\ UNCHANGED <<build, launched, sessVars, orchVars, wsVars, unlocked, mutex>>

\* the request e of inflight moves on to stage
Staged(e, stage) == (inflight \ {e}) \cup {[e EXCEPT !.stage = stage]}

\* the /start handler of part_000, up to the return of NewSession
StartHandler ==
    /\ build = "part_000"
    /\ StartUpToNewSession("/start")

\* the /start handler: the go statement starts the orchestrator goroutine
\* on the session
StartGo ==
    /\ build = "part_000"
    /\ \E e \in inflight :
         /\ e.stage = "created"
         /\ launched' = launched \cup {e.session}
         /\ inflight' = Staged(e, "launched")
    /\ UNCHANGED <<build, sessions, created, statuses, sessVars, orchVars,
                   wsVars, unlocked, mutex>>

\* the /start handler: redirect to the session page and return
StartRedirect ==
    /\ build = "part_000"
    /\ \E e \in inflight :
         /\ e.stage = "launched"
         /\ statuses' = Logged(e.path, e.method, e.prompt, 303)
         /\ inflight' = inflight \ {e}
    /\ UNCHANGED <<build, sessions, created, launched, sessVars, orchVars,
                   wsVars, unlocked, mutex>>

\* the /reddit/start handler of main.go, up to the return of NewSession
RedditStartHandler ==
    /\ build = "main.go"
    /\ StartUpToNewSession("/reddit/start")

\* the /reddit/start handler after SelectPersonas returned: store the
\* selection in the session (without the mutex) and redirect, or answer 500
RedditStartAnswer ==
    /\ build = "main.go"
    /\ \E e \in inflight, personasOk \in BOOLEAN :
         /\ e.stage = "created"
         /\ statuses' = Logged(e.path, e.method, e.prompt,
                               IF personasOk THEN 303 ELSE 500)
         /\ unlocked' = IF personasOk THEN unlocked \cup {"SelectedPersonas"}
                        ELSE unlocked
         /\ inflight' = inflight \ {e}
    /\ UNCHANGED <<build, sessions, created, launched, sessVars, orchVars,
                   wsVars, mutex>>

\* the /reddit/start handler when the API answered without any choice:
\* SelectPersonas indexes chatResp.Choices[0] and the handler panics;
\* net/http recovers it and drops the connection without an answer
RedditStartPanic ==
    /\ build = "main.go"
    /\ \E e \in inflight :
         /\ e.stage = "created"
         /\ inflight' = Staged(e, "panicked")
    /\ UNCHANGED <<build, sessions, created, launched, statuses, sessVars,
                   orchVars, wsVars, unlocked, mutex>>

\* a handler that takes the session of ?id=, up to the return of
\* GetSession: answer 400 on a missing id (no lock is taken on that path),
\* or look the id up under the mutex and go on with what the map gave
SessionPage(path) ==
    /\ Received < MaxRequests
    /\ \E id \in IDs \cup {""} :
         IF id = ""
         THEN /\ statuses' = Logged(path, "GET", "", 400)
              /\ UNCHANGED inflight
         ELSE LET got == GetSession(sessions, id)
              IN /\ mutex = "free"
                 /\ inflight' = inflight \cup
                        {[req |-> Received + 1, path |-> path,
                          method |-> "GET", prompt |-> "",
                          session |-> got.session,
                          stage |-> IF got.ok THEN "found" ELSE "missing"]}
                 /\ UNCHANGED statuses
    /\ UNCHANGED <<build, sessions, created, launched, sessVars, orchVars,
                   wsVars, unlocked, mutex>>

\* the rest of a session page handler, after GetSession returned and
\* released the mutex: 404 when the id was not in the map at that moment,
\* the page of the session it returned otherwise
SessionAnswer(path) ==
    /\ \E e \in inflight :
         /\ e.path = path
         /\ e.stage \in {"found", "missing"}
         /\ statuses' = Logged(e.path, e.method, e.prompt,
                               IF e.stage = "missing" THEN 404 ELSE 200)
         /\ inflight' = inflight \ {e}
    /\ UNCHANGED <<build, sessions, created, launched, sessVars, orchVars,
                   wsVars, unlocked, mutex>>

\* the /session handler of part_000, up to the return of GetSession
SessionHandler ==
    /\ build = "part_000"
    /\ SessionPage("/session")

\* the /session handler of part_000: its answer
SessionServe ==
    /\ build = "part_000"
    /\ SessionAnswer("/session")

\* the /reddit/session handler of main.go, up to the return of GetSession
RedditSessionHandler ==
    /\ build = "main.go"
    /\ SessionPage("/reddit/session")

\* the /reddit/session handler of main.go: its answer
RedditSessionServe ==
    /\ build = "main.go"
    /\ SessionAnswer("/reddit/session")

\* the /reddit/ws handler of main.go, up to the return of GetSession
RedditWsHandler ==
    /\ build = "main.go"
    /\ SessionPage("/reddit/ws")

\* the /reddit/ws handler of main.go after GetSession: 404 when the id was
\* not in the map; otherwise upgrade the connection (the upgrader answers
\* 400 itself when it cannot) and range over sess.SelectedPersonas, read
\* without the mutex. The loop generates and writes to the connection
\* only: nothing of the session or of the store is written.
RedditWsStream ==
    /\ build = "main.go"
    /\ \E e \in inflight, upgradeOk \in BOOLEAN :
         /\ e.path = "/reddit/ws"
         /\ e.stage \in {"found", "missing"}
         /\ statuses' = Logged(e.path, e.method, e.prompt,
                               IF e.stage = "missing" THEN 404
                               ELSE IF upgradeOk THEN 101 ELSE 400)
         /\ unlocked' = IF e.stage = "found" /\ upgradeOk
                        THEN unlocked \cup {"SelectedPersonas"}
                        ELSE unlocked
         /\ inflight' = inflight \ {e}
    /\ UNCHANGED <<build, sessions, created, launched, sessVars, orchVars,
                   wsVars, mutex>>

(* ---------- specification ---------- *)

Next ==
    \/ GenerateStancesOk
    \/ GenerateStancesFail
    \/ GenerateStancesPanic
    \/ StoreStances
    \/ TopLevelOk
    \/ TopLevelSpawn
    \/ TopLevelFail
    \/ SpawnJoin
    \/ \E i \in 0..(MaxStances - 1) : ReplyOk(i)
    \/ \E i \in 0..(MaxStances - 1) : ReplyReturn(i)
    \/ \E i \in 0..(MaxStances - 1) : ReplyFail(i)
    \/ Join
    \/ \E o \in Observers : WsConnect(o)
    \/ \E o \in Observers : WsPoll(o)
    \/ \E o \in Observers : WsFinish(o)

Spec == Init /\ [][Next]_vars

SpecTwo == InitTwo /\ [][Next]_vars

\* the request handlers in front of the session store, of whichever
\* program is running
NextStore ==
    \/ StartHandler
    \/ StartGo
    \/ StartRedirect
    \/ SessionHandler
    \/ SessionServe
    \/ RedditStartHandler
    \/ RedditStartAnswer
    \/ RedditStartPanic
    \/ RedditSessionHandler
    \/ RedditSessionServe
    \/ RedditWsHandler
    \/ RedditWsStream

SpecStore == InitStore /\ [][NextStore]_vars

\* deliveries may fail: a client may go away or stop reading at any time
NextTransport ==
    \/ Next
    \/ \E o \in Observers : WsBreak(o)
    \/ \E o \in Observers : WsPollPeerLeaves(o)
    \/ \E o \in Observers : WsStall(o)

SpecTransport == Init /\ [][NextTransport]_vars

\* every goroutine of the orchestrator that can take a step eventually does:
\* the scheduler runs runnable goroutines and collaborator calls return
OrchestratorFairness ==
    /\ WF_vars(GenerateStancesOk \/ GenerateStancesFail \/ GenerateStancesPanic)
    /\ WF_vars(StoreStances)
    /\ WF_vars(TopLevelOk \/ TopLevelFail)
    /\ WF_vars(TopLevelSpawn)
    /\ WF_vars(SpawnJoin)
    /\ \A i \in 0..(MaxStances - 1) :
         WF_vars(ReplyOk(i) \/ ReplyFail(i) \/ ReplyReturn(i))
    /\ WF_vars(Join)

FairSpec == Spec /\ OrchestratorFairness

\* an iteration of the handler of o can change the state: the handler is in
\* its loop, can take the mutex, and either its read of sess.Done can give
\* true or the two loops have something to send or to count
PollChanges(o) ==
    /\ Running
    /\ wspc[o] = "loop"
    /\ mutex = "free"
    /\ \/ TRUE \in DoneReads(Done)
       \/ LET it == WsIteration(Responses, lastSentTopLevel[o], replyCounts[o])
          IN \/ it.panic
             \/ it.out # <<>>
             \/ it.lastSentTopLevel # lastSentTopLevel[o]
             \/ it.replyCounts # replyCounts[o]

\* every /ws handler in its loop keeps iterating (it sleeps 500ms and polls
\* again), and a write to sess.Done eventually reaches its reads: weak
\* fairness of WsPoll(o), with PollChanges(o) for ENABLED <<WsPoll(o)>>_vars,
\* and of WsFinish(o)
StreamerFairness ==
    \A o \in Observers :
        /\ []<>(~PollChanges(o)) \/ []<><<WsPoll(o)>>_vars
        /\ WF_vars(WsFinish(o))

LiveSpec == FairSpec /\ StreamerFairness

(* ---------- vocabulary of the properties ---------- *)

IsPrefix(s, t) ==
    /\ Len(s) <= Len(t)
    /\ \A j \in 1..Len(s) : s[j] = t[j]

IsComment(m) == m.type = "comment"
IsReply(m) == m.type = "reply"
IsDone(m) == m.type = "done"

\* the comment messages written to o, in order
CommentsSent(o) == SelectSeq(sent[o], IsComment)

\* the reply messages written to o for the comment of Go index i, in order
RepliesSent(o, i) ==
    LET ForI(m) == IsReply(m) /\ m.parentIndex = SprintfD(i)
    IN SelectSeq(sent[o], ForI)

\* positions of sent[o] holding a message of the given type and index
Positions(o, type, index) ==
    { p \in 1..Len(sent[o]) :
        /\ sent[o][p].type = type
        /\ sent[o][p].parentIndex = SprintfD(index) }

\* the rendered reply is part of the html of a comment message
Embedded(m, replyHTML) ==
    /\ "div" \in DOMAIN m.html
    /\ \E j \in 2..Len(m.html.div) : m.html.div[j] = replyHTML

Indices == 0..(Len(Responses) - 1)

StanceFailed == Error \in StanceErrors
TopLevelFailed == Error \in GenErrors

\* reply goroutines started so far
Started == { i \in DOMAIN reply : reply[i].pc # "none" }

(* ---------- C1 ---------- *)

\* C1: an observer whose stream has ended, whenever it attached, has been
\* sent every comment of the session and the content of every reply (as a
\* reply message or at least inside its comment's message).
C1_FullHistory ==
    \A o \in Observers :
        wspc[o] = "closed" =>
            \A i \in Indices :
                /\ Positions(o, "comment", i) # {}
                /\ \A r \in 1..Len(Responses[i + 1].Replies) :
                     LET replyHTML ==
                             RenderCommentRecursive(Responses[i + 1].Replies[r], 1)
                     IN \/ \E p \in Positions(o, "reply", i) :
                              sent[o][p].html = replyHTML
                        \/ \E p \in Positions(o, "comment", i) :
                              Embedded(sent[o][p], replyHTML)

(* ---------- C2 ---------- *)

\* C2: when done has been sent to an observer it has been sent exactly one
\* comment message per entry of Responses and exactly one reply message per
\* entry of each comment's Replies, and no message twice.
C2_ExactlyOnce ==
    \A o \in Observers :
        wspc[o] = "closed" =>
            /\ \A i \in Indices :
                 /\ Cardinality(Positions(o, "comment", i)) = 1
                 /\ Len(RepliesSent(o, i)) = Len(Responses[i + 1].Replies)
            /\ \A p, q \in 1..Len(sent[o]) : sent[o][p] = sent[o][q] => p = q

(* ---------- C3 ---------- *)

\* C3: the comment messages an observer is sent carry parentIndex 0, 1, 2,
\* ... in this order: the j-th one carries j - 1.
C3_CommentIndexes ==
    \A o \in Observers :
        \A j \in 1..Len(CommentsSent(o)) :
            CommentsSent(o)[j].parentIndex = SprintfD(j - 1)

\* an observer that attached late has been sent three comment messages
C3_Witness ==
    /\ Len(CommentsSent("o1")) = 3
    /\ Len(replyCounts["o1"]) > 3

(* ---------- C4 ---------- *)

\* C4: a reply message follows the comment message of its parentIndex in the
\* same observer's stream, and the reply messages of one index are replies
\* of that comment in append order.
C4_ReplyAfterComment ==
    \A o \in Observers :
        /\ \A p \in 1..Len(sent[o]) :
             IsReply(sent[o][p]) =>
                 \E q \in 1..(p - 1) :
                     /\ IsComment(sent[o][q])
                     /\ sent[o][q].parentIndex = sent[o][p].parentIndex
        /\ \A i \in Indices :
             LET rs == RepliesSent(o, i)
                 all == Responses[i + 1].Replies
             IN \E from \in 0..Len(all) :
                  /\ from + Len(rs) <= Len(all)
                  /\ \A j \in 1..Len(rs) :
                       rs[j].html = RenderCommentRecursive(all[from + j], 1)

\* an observer has been sent a reply of the second comment
C4_Witness ==
    /\ Len(RepliesSent("o1", 1)) = 1
    /\ Len(RepliesSent("o1", 0)) = 1

(* ---------- C5 ---------- *)

\* C5: an observer is sent done at most once, nothing after it, and its
\* handler has returned exactly when done was sent.
C5_DoneOnceAndLast ==
    \A o \in Observers :
        /\ \A p \in 1..Len(sent[o]) : IsDone(sent[o][p]) => p = Len(sent[o])
        /\ wspc[o] = "closed" <=>
              (Len(sent[o]) > 0 /\ IsDone(sent[o][Len(sent[o])]))

\* an observer's stream ended with done after comments and replies
C5_Witness ==
    /\ wspc["o1"] = "closed"
    /\ Len(sent["o1"]) >= 4

(* ---------- C6 ---------- *)

\* generateStances did not give a selection: it returned an error, or the
\* API's answer had no choice for it to read
NoSelection == StanceFailed \/ pc = "panicked"

\* C6: after a failed stance selection the session is done with the error
\* recorded, no comment, no top-level or reply generation started, and an
\* observer is sent nothing but done.
C6_StanceFailure ==
    NoSelection =>
        /\ Done
        /\ pc = "returned"
        /\ Responses = <<>>
        /\ topCalls = 0
        /\ Started = {}
        /\ joinpc = "none"
        /\ \A o \in Observers :
             /\ sent[o] \in {<<>>, <<DoneMessage>>}
             /\ wspc[o] = "closed" => sent[o] = <<DoneMessage>>

(* ---------- C7 ---------- *)

\* what holds in every state after a failed top-level generation at k
KeptAfterFailure ==
    TopLevelFailed =>
        /\ topCalls = k + 1
        /\ k < Len(selectedStances)
        /\ Len(Responses) = k
        /\ \A i \in Indices :
             /\ Responses[i + 1].Username =
                    SprintfUser(selectedStances[i + 1].Type,
                                selectedStances[i + 1].SubType)
             /\ reply[i].pc = "finished" => Len(Responses[i + 1].Replies) = 1
        /\ pc = "returned" => joinpc # "none"
        /\ joinpc = "finished" => Done
        /\ Done => \A i \in Indices : reply[i].pc \in {"finished", "failed"}

\* C7: after top-level generation failed for the stance at position k, k + 1
\* generation calls have been made and no more, Responses holds exactly the
\* k comments of the stances before it, each with the reply its goroutine
\* produced, the error is recorded, and the session still becomes done.
C7_TopLevelFailure ==
    /\ []KeptAfterFailure
    /\ TopLevelFailed ~> (Done /\ TopLevelFailed /\ Len(Responses) = k)

\* three stances, the second generation failed, the session is done with
\* the first comment and its reply
C7_Witness ==
    /\ TopLevelFailed
    /\ Len(selectedStances) = 3
    /\ k = 1
    /\ Done
    /\ Len(Responses) = 1
    /\ Len(Responses[1].Replies) = 1

(* ---------- C8 ---------- *)

\* C8: when the session is done and no reply goroutine failed, every
\* comment holds exactly one reply, the one generated from its own text, so
\* N goroutines leave N replies.
C8_RepliesAtParents ==
    (Done /\ \A i \in Started : reply[i].pc # "failed") =>
        /\ Started = Indices
        /\ \A i \in Indices :
             /\ Len(Responses[i + 1].Replies) = 1
             /\ reply[i].parentText = Responses[i + 1].Text
             /\ Responses[i + 1].Replies[1].Text
                    \in ReplyTexts(Responses[i + 1].Text)

\* three reply goroutines succeeded, the one of the second comment before
\* the one of the first (an observer was sent them in that order)
C8_Witness ==
    /\ Done
    /\ Cardinality(Started) = 3
    /\ \A i \in Started : reply[i].pc = "finished"
    /\ \E p \in Positions("o1", "reply", 1) :
         \E q \in Positions("o1", "reply", 0) : p < q

(* ---------- C9 ---------- *)

\* C9: Done is assigned at most once, holds exactly from that assignment
\* on, and never goes back to false.
C9_DoneOnce ==
    [][ /\ Done => Done'
        /\ doneWrites' <= 1
        /\ Done' <=> (doneWrites' = 1) ]_vars

\* the join goroutine has marked a session with comments done
C9_Witness ==
    /\ Done
    /\ joinpc = "finished"
    /\ Len(Responses) >= 2

(* ---------- C10 ---------- *)

\* the comment c is still c2 up to replies appended to it
SameComment(c, c2) ==
    /\ c2.Username = c.Username
    /\ c2.Flair = c.Flair
    /\ c2.Text = c.Text
    /\ IsPrefix(c.Replies, c2.Replies)

\* C10: every step leaves each existing comment at its index, unchanged but
\* for replies appended to its Replies.
C10_AppendOnly ==
    [][ /\ Len(Responses) <= Len(Responses')
        /\ \A j \in 1..Len(Responses) :
             SameComment(Responses[j], Responses'[j]) ]_vars

\* two comments, the first with its reply appended, the reply of the second
\* still being generated
C10_Witness ==
    /\ Len(Responses) >= 2
    /\ Len(Responses[1].Replies) = 1
    /\ Len(Responses[2].Replies) = 0
    /\ reply[1].pc = "call"

(* ---------- C11 ---------- *)

\* C11: sess.SelectedStances changes only from empty and only while there
\* is no comment (so at most once), and whenever a comment exists the
\* session holds the selection the comments are generated from.
C11_StancesOnceBeforeComments ==
    /\ [][ SelectedStances' # SelectedStances =>
             /\ SelectedStances = <<>>
             /\ Responses = <<>>
             /\ Responses' = <<>> ]_vars
    /\ [](Responses # <<>> =>
             /\ SelectedStances = selectedStances
             /\ Len(Responses) <= Len(SelectedStances))

\* two comments appended, three stances stored
C11_Witness ==
    /\ Len(Responses) = 2
    /\ Len(SelectedStances) = 3
    /\ pc = "loop"

(* ---------- C12 ---------- *)

\* a step in which a reply goroutine fails
ReplyFailStep ==
    \E i \in DOMAIN reply : reply[i].pc = "call" /\ reply'[i].pc = "failed"

\* C12: a failing reply goroutine changes nothing of the session and nothing
\* of the top-level loop or of the other goroutines; it is never run again
\* and its comment stays without reply; with no other failure every stance
\* still gets its comment and every other reply is kept; and the session
\* still becomes done.
C12_ReplyFailureIsolated ==
    /\ [][ /\ ReplyFailStep =>
                /\ UNCHANGED <<SelectedStances, Responses, Done, Error>>
                /\ UNCHANGED <<pc, selectedStances, k, joinpc, topCalls>>
                /\ \A j \in DOMAIN reply :
                     reply[j].pc # "call" => reply'[j] = reply[j]
           /\ \A i \in DOMAIN reply :
                reply[i].pc = "failed" =>
                    /\ reply'[i].pc = "failed"
                    /\ Responses'[i + 1].Replies = <<>> ]_vars
    /\ []((Done /\ Error = NoError) =>
             /\ Len(Responses) = Len(selectedStances)
             /\ \A i \in Indices :
                  reply[i].pc = "finished" => Len(Responses[i + 1].Replies) = 1)
    /\ (\E i \in DOMAIN reply : reply[i].pc = "failed") ~> Done

\* the reply of the first comment failed; the session is done without error,
\* with all three comments and the replies of the other two
C12_Witness ==
    /\ Done
    /\ Error = NoError
    /\ reply[0].pc = "failed"
    /\ Len(Responses) = 3
    /\ Len(Responses[1].Replies) = 0
    /\ Len(Responses[2].Replies) = 1
    /\ Len(Responses[3].Replies) = 1

(* ---------- C13 ---------- *)

\* C13: once a write to an observer's connection has returned an error, its
\* handler is no longer in its polling loop.
C13_StopsOnTransportError ==
    \A o \in Observers : conn[o] = "write_error" => wspc[o] # "loop"

(* ---------- C14 ---------- *)

\* C14: the html of the j-th comment message an observer is sent is the
\* rendering of that comment alone, without any reply.
C14_CommentWithoutReplies ==
    \A o \in Observers :
        \A j \in 1..Len(CommentsSent(o)) :
            CommentsSent(o)[j].html = MainComment(Responses[j], 0)

(* ---------- C15 ---------- *)

\* C15: with deliveries succeeding, a handler that is in its loop when the
\* session is done eventually writes done and returns.
C15_StreamerTerminates ==
    \A o \in Observers :
        (Done /\ wspc[o] = "loop") ~>
            (/\ wspc[o] = "closed"
             /\ sent[o][Len(sent[o])] = DoneMessage)

\* an observer that attached after all three comments existed has drained
\* them and returned
C15_Witness ==
    /\ Done
    /\ wspc["o1"] = "closed"
    /\ lastSentTopLevel["o1"] = 3
    /\ Len(replyCounts["o1"]) = 6

(* ---------- C16 ---------- *)

\* the request answered by this step, if the step answers one
Handled == statuses'[Len(statuses')]

\* C16: in either program, a submission with an empty prompt is answered
\* with an error status (400 when it is a well-formed POST) by a step that
\* leaves the sessions map, the sessions built, the requests in progress
\* and the orchestrator goroutines started as they were; no session built
\* and no request past NewSession has an empty prompt.
C16_EmptyPromptRejected ==
    /\ [][ (/\ Len(statuses') = Len(statuses) + 1
            /\ Handled.path \in {"/start", "/reddit/start"}
            /\ Handled.prompt = "") =>
               /\ Handled.status \in {400, 405}
               /\ Handled.method = "POST" => Handled.status = 400
               /\ UNCHANGED <<sessions, created, launched, inflight>> ]_vars
    /\ [](/\ \A e \in inflight :
                 e.path \in {"/start", "/reddit/start"} => e.prompt # ""
          /\ \A p \in 1..Len(created) : created[p].Prompt # "")

\* an empty prompt was rejected with 400 while a session is registered
C16_Witness ==
    /\ Len(statuses) >= 2
    /\ statuses[Len(statuses)].prompt = ""
    /\ statuses[Len(statuses)].path = "/start"
    /\ statuses[Len(statuses)].status = 400
    /\ build = "part_000"
    /\ Len(created) = 1
    /\ launched = {1}
    /\ inflight # {}

(* ---------- C17 ---------- *)

\* C17: every session NewSession has built is still the one GetSession
\* returns for its ID (so the IDs are pairwise different and no session has
\* been replaced in the map).
C17_FreshIds ==
    \A ptr \in 1..Len(created) :
        GetSession(sessions, created[ptr].ID) = [ok |-> TRUE, session |-> ptr]

(* ---------- C18 ---------- *)

\* C18: once a selection has been stored on the session, the stored stances
\* number between SelectMin and SelectMax.
C18_StanceCount ==
    (pc \in {"loop", "after_loop", "returned"} /\ ~StanceFailed) =>
        Len(SelectedStances) \in SelectMin..SelectMax

(* ---------- C19 ---------- *)

\* C19: whenever the session is done the orchestrator has left its loop and
\* returned and no reply goroutine is still running (the wait group is at
\* zero), and from then on no step changes the comments or their replies.
C19_DoneAfterAll ==
    /\ [](Done => /\ pc = "returned"
                  /\ wg = 0
                  /\ iter = NoIter
                  /\ \A i \in DOMAIN reply :
                       reply[i].pc \notin {"call", "appended"})
    /\ [][Done => Responses' = Responses]_vars

\* the session is done after three comments whose replies all arrived
C19_Witness ==
    /\ Done
    /\ Len(Responses) = 3
    /\ \A i \in 0..2 : reply[i].pc = "finished"
    /\ \A j \in 1..3 : Len(Responses[j].Replies) = 1

(* ---------- C20 ---------- *)

\* C20: no field of the session among stances, comments, done, error and
\* replies has been read or written outside sessionsMutex.
C20_AllAccessesLocked == unlocked = {}

(* ---------- C21 ---------- *)

\* number of replies rendered inside the html of a comment message
EmbeddedIn(m) == IF "div" \in DOMAIN m.html THEN Len(m.html.div) - 1 ELSE 0

\* replies of the comment of Go index i that o has been sent, inside the
\* comment message or as reply messages
Delivered(o, i) == EmbeddedIn(CommentsSent(o)[i + 1]) + Len(RepliesSent(o, i))

\* C21: once a handler has sent comments, between two iterations of its
\* loop replyCounts has one entry per comment sent (its length is
\* lastSentTopLevel) and entry i is the number of replies of comment i the
\* client has been sent.
C21_OneCountPerSent ==
    \A o \in Observers :
        (wspc[o] \in {"loop", "closed"} /\ lastSentTopLevel[o] > 0) =>
            /\ Len(replyCounts[o]) = lastSentTopLevel[o]
            /\ \A i \in 0..(lastSentTopLevel[o] - 1) :
                 replyCounts[o][i + 1] = Delivered(o, i)

(* ---------- C22 ---------- *)

\* C22: in the iteration a handler would run now, right after the comment
\* messages are written (before the reply loop), replyCounts[i] is 0 for
\* every index i whose comment message was just written.
C22_CountStartsAtZero ==
    \A o \in Observers :
        wspc[o] = "loop" =>
            LET top == DrainTopLevel(Responses, lastSentTopLevel[o],
                                     replyCounts[o], <<>>)
            IN \A i \in lastSentTopLevel[o]..(top.lastSentTopLevel - 1) :
                   top.replyCounts[i + 1] = 0

(* ---------- C23 ---------- *)

\* C23: there are never more comments than stored stances, the comment at
\* each index is the one built from the stance at that index and a text
\* generated for that stance, and a top-level generation call is made only
\* when every earlier call has returned without error and its comment has
\* been appended (so no two calls are ever in progress together).
C23_SequentialInOrder ==
    /\ [](/\ Len(Responses) <= Len(SelectedStances)
          /\ \A j \in 1..Len(Responses) :
               \E text \in TopTexts(SelectedStances[j]) :
                   SameComment(TopComment(SelectedStances[j], text),
                               Responses[j]))
    /\ [][topCalls' # topCalls =>
            /\ topCalls' = topCalls + 1
            /\ topCalls = Len(Responses)
            /\ Error = NoError]_vars

\* the loop has made three calls and appended three comments
C23_Witness ==
    /\ pc = "loop"
    /\ topCalls = 3
    /\ Len(Responses) = 3
    /\ Responses[2].Flair = SelectedStances[2].Type
    /\ SelectedStances[2] # SelectedStances[1]

(* ---------- C24 ---------- *)

\* C24: generateStances is called once (the goroutine never comes back to
\* the call); every top-level generation call is for a position of the
\* selection no earlier call was made for, so there are never more calls
\* than stances; a reply goroutine exists only for a comment appended, and
\* for each of them but the one whose iteration has not reached its go
\* statement yet; it makes its one call and never calls again once it has
\* appended, finished or failed.
C24_NoRetry ==
    /\ [][pc # "stances" => pc' # "stances"]_vars
    /\ [][topCalls' # topCalls =>
            /\ topCalls' = topCalls + 1
            /\ pc = "loop"
            /\ k = topCalls]_vars
    /\ [](topCalls <= Len(selectedStances))
    /\ [](\A i \in DOMAIN reply :
            /\ reply[i].pc # "none" => i < Len(Responses)
            /\ i < Len(Responses) =>
                   \/ reply[i].pc # "none"
                   \/ pc = "spawn" /\ iter.idx = i)
    /\ [][\A i \in DOMAIN reply :
            /\ reply[i].pc \in {"finished", "failed"} => reply'[i] = reply[i]
            /\ reply[i].pc = "appended" =>
                   reply'[i].pc \in {"appended", "finished"}
            /\ reply[i].pc = "call" =>
                   reply'[i].pc \in {"call", "appended", "failed"}]_vars

\* the second top-level call failed and the session completed without
\* another call
C24_Witness ==
    /\ Done
    /\ topCalls = 2
    /\ Len(selectedStances) = 3
    /\ Error \in GenErrors
    /\ Len(Responses) = 1
    /\ reply[0].pc = "failed"

(* ---------- C25 ---------- *)

\* C25: every comment has at most one reply and no reply has replies; when
\* the session is done, the comment of index i has exactly one reply if its
\* reply goroutine finished with a generated text and none if it failed.
C25_DepthTwo ==
    /\ \A j \in 1..Len(Responses) :
         /\ Len(Responses[j].Replies) <= 1
         /\ \A r \in 1..Len(Responses[j].Replies) :
              Len(Responses[j].Replies[r].Replies) = 0
    /\ Done =>
         \A i \in Indices :
             /\ reply[i].pc \in {"finished", "failed"}
             /\ Len(Responses[i + 1].Replies) =
                    IF reply[i].pc = "finished" THEN 1 ELSE 0

\* done with two comments: the first has its reply, the second's failed
C25_Witness ==
    /\ Done
    /\ Len(Responses) = 2
    /\ reply[0].pc = "finished"
    /\ reply[1].pc = "failed"
    /\ Len(Responses[1].Replies) = 1
    /\ Len(Responses[2].Replies) = 0

(* ---------- C26 ---------- *)

\* C26: when every generation call returns and the goroutines are scheduled
\* fairly, the session is eventually done, whether or not a client is
\* attached and polling.
C26_EventuallyDone == <>Done

(* ---------- C27 ---------- *)

\* len(sess.Responses) when the handler of o set up: replyCounts starts
\* with that many entries and gets one more per comment sent
AttachedAt(o) == Len(replyCounts[o]) - lastSentTopLevel[o]

\* how many times the rendered reply has been written to o for the comment
\* of index i: inside the comment message and as reply messages
TimesDelivered(o, i, replyHTML) ==
    Cardinality({ p \in Positions(o, "comment", i) :
                     Embedded(sent[o][p], replyHTML) })
    + Cardinality({ p \in Positions(o, "reply", i) :
                       sent[o][p].html = replyHTML })

\* C27: a handler that set up while the session had no comment and has
\* written done has written every reply of every comment exactly once,
\* inside its comment's message or as a reply message, and nothing more.
C27_ReplyOnceFromEmpty ==
    \A o \in Observers :
        (wspc[o] = "closed" /\ AttachedAt(o) = 0) =>
            \A i \in Indices :
                /\ Cardinality(Positions(o, "comment", i)) = 1
                /\ Delivered(o, i) = Len(Responses[i + 1].Replies)
                /\ \A r \in 1..Len(Responses[i + 1].Replies) :
                     TimesDelivered(o, i,
                         RenderCommentRecursive(Responses[i + 1].Replies[r], 1)) = 1

\* a handler that set up on an empty session has written done after one
\* reply went out inside its comment and another as a reply message
C27_Witness ==
    /\ wspc["o1"] = "closed"
    /\ AttachedAt("o1") = 0
    /\ Len(CommentsSent("o1")) = 2
    /\ EmbeddedIn(CommentsSent("o1")[1]) = 1
    /\ EmbeddedIn(CommentsSent("o1")[2]) = 0
    /\ Len(RepliesSent("o1", 1)) = 1

(* ---------- C28 ---------- *)

\* C28: no handler has stopped on an index out of range, lastSentTopLevel
\* never exceeds len(sess.Responses), and in the iteration a handler would
\* run now replyCounts has, when the reply loop starts, an entry for every
\* index of sess.Responses, so that the loop reads replyCounts[i] in range.
C28_CountsInRange ==
    \A o \in Observers :
        /\ wspc[o] # "panicked"
        /\ lastSentTopLevel[o] <= Len(Responses)
        /\ wspc[o] = "loop" =>
             LET top == DrainTopLevel(Responses, lastSentTopLevel[o],
                                      replyCounts[o], <<>>)
             IN /\ Len(top.replyCounts) >= Len(Responses)
                /\ ~WsIteration(Responses, lastSentTopLevel[o],
                                replyCounts[o]).panic

\* a handler that set up after the first comment has sent two comments and
\* a third one is waiting for its next iteration
C28_Witness ==
    /\ wspc["o1"] = "loop"
    /\ AttachedAt("o1") = 1
    /\ lastSentTopLevel["o1"] = 2
    /\ Len(Responses) = 3

(* ---------- C29 ---------- *)

\* the goroutine returned on a generateStances error (no join goroutine)
SelectionFailed == pc = "returned" /\ joinpc = "none"

\* the range loop was left before its last stance (break)
LoopBroken == pc \in {"after_loop", "returned"} /\ ~RangeEnds(selectedStances, k)

\* C29: when the session is done, Error is set exactly when generateStances
\* failed or a top-level generation failed; a failing reply goroutine leaves
\* Error as it is; once set, Error keeps its value.
C29_ErrorField ==
    /\ [](Done => (Error # NoError <=> (SelectionFailed \/ LoopBroken)))
    /\ [][ReplyFailStep => Error' = Error]_vars
    /\ [][Error # NoError => Error' = Error]_vars

\* done with the error of the third top-level call, after a reply failed
C29_Witness ==
    /\ Done
    /\ Error \in GenErrors
    /\ topCalls = 3
    /\ Len(Responses) = 2
    /\ reply[0].pc = "failed"
    /\ reply[1].pc = "finished"

(* ---------- C30 ---------- *)

\* generateStances returned an empty selection without error
EmptySelection ==
    /\ pc \notin {"stances", "panicked"}
    /\ ~SelectionFailed
    /\ Len(selectedStances) = 0

\* C30: after an empty selection the session has no comment and no error
\* and becomes done; a handler is sent nothing but done, once, and has been
\* sent it when it returns.
C30_EmptySelectionCompletes ==
    /\ [](EmptySelection =>
            /\ Len(Responses) = 0
            /\ Error = NoError
            /\ \A o \in Observers :
                 /\ sent[o] \in {<<>>, <<DoneMessage>>}
                 /\ wspc[o] = "closed" => sent[o] = <<DoneMessage>>)
    /\ EmptySelection ~> Done

\* the session of an empty selection is done and the client has its done
C30_Witness ==
    /\ EmptySelection
    /\ Done
    /\ joinpc = "finished"
    /\ Error = NoError
    /\ Len(Responses) = 0
    /\ sent["o1"] = <<DoneMessage>>
    /\ wspc["o1"] = "closed"

====
